---------------------------- MODULE Spec2Model ----------------------------
(***************************************************************************)
(* Model of the CLIv2 dispatcher (package cliv2): construction of the CLI  *)
(* with extraction/validation of the cached CLIv1 binary, preparation of   *)
(* the child environment, routing of Execute to the built-in version       *)
(* handler, an extension or the CLIv1 fallback, and the mapping of the     *)
(* child's outcome to the returned exit code.                              *)
(*                                                                         *)
(* An environment list ([]string of "K=V") is a sequence of <<key, value>> *)
(* pairs; a map[string]string is a function whose DOMAIN is its key set.   *)
(* An error value is a record [kind, code]: kind "nil", "exit" (an         *)
(* *exec.ExitError carrying ExitCode()) or "other".                        *)
(***************************************************************************)
EXTENDS Integers, Sequences, FiniteSets, TLC

VARIABLES
    pc,          \* position of the process: "start", "ready", "noCLI", "failed", "running", "returned", "env", "envDone"
    file,        \* content of the file at v1BinaryLocation: "missing", "good" (matches ExpectedSHA256), "bad"
    verified,    \* history: the current content of the file passed ValidateFile since it was last written
    ctor,        \* history: what NewCLIv2 / ExtractV1Binary did
    parentEnv,   \* os.Environ() of the dispatcher process
    extensions,  \* CLI.Extensions, in registration order
    call,        \* the arguments of the Execute call in progress (or last returned)
    prepared,    \* the last call of PrepareV1EnvironmentVariables: its arguments and results
    child,       \* the child process launched by the Execute call in progress
    out,         \* what the Execute call in progress printed with fmt.Println
    result,      \* <<>> while no exit code was returned, <<n>> once Execute returned n
    route,       \* history of the Execute call in progress: the paths it entered, the children it spawned
    racers       \* the concurrent invocations of the race specification, each at its step of ExtractV1Binary

vars == <<pc, file, verified, ctor, parentEnv, extensions, call, prepared, child, out, result, route, racers>>

---------------------------------------------------------------------------
(* Bounds of the model                                                     *)

\* longest parent environment of the dispatch specification
MaxParentEnv == 1
\* longest input list of the PrepareV1EnvironmentVariables specification
MaxEnvLen == 2
\* longest argument list given to Execute
MaxArgs == 2
\* largest exit status a child reports
MaxExitStatus == 2
\* number of concurrent invocations that share the cache path
MaxInvocations == 2

---------------------------------------------------------------------------
(* Program constants                                                       *)

SNYK_EXIT_CODE_OK == 0
SNYK_EXIT_CODE_ERROR == 2
\* exit_codes.SNYK_EXIT_CODE_OK / exit_codes.SNYK_EXIT_CODE_ERROR
EXIT_CODES_OK == 0
EXIT_CODES_ERROR == 2
\* ExitCode() of an ExitError whose process was terminated by a signal
EXIT_CODE_SIGNALED == -1

SNYK_INTEGRATION_NAME == "CLI_V1_PLUGIN"
SNYK_INTEGRATION_NAME_ENV == "SNYK_INTEGRATION_NAME"
SNYK_INTEGRATION_VERSION_ENV == "SNYK_INTEGRATION_VERSION"
SNYK_HTTPS_PROXY_ENV == "HTTPS_PROXY"
SNYK_HTTP_PROXY_ENV == "HTTP_PROXY"
SNYK_HTTP_NO_PROXY_ENV == "NO_PROXY"
SNYK_NPM_PROXY_ENV == "NPM_CONFIG_PROXY"
SNYK_NPM_HTTPS_PROXY_ENV == "NPM_CONFIG_HTTPS_PROXY"
SNYK_NPM_HTTP_PROXY_ENV == "NPM_CONFIG_HTTP_PROXY"
SNYK_NPM_NO_PROXY_ENV == "NPM_CONFIG_NO_PROXY"
SNYK_NPM_ALL_PROXY == "ALL_PROXY"
SNYK_CA_CERTIFICATE_LOCATION_ENV == "NODE_EXTRA_CA_CERTS"

\* the blackList of PrepareV1EnvironmentVariables, in its order
blackList ==
    << SNYK_HTTPS_PROXY_ENV, SNYK_HTTP_PROXY_ENV, SNYK_CA_CERTIFICATE_LOCATION_ENV,
       SNYK_HTTP_NO_PROXY_ENV, SNYK_NPM_NO_PROXY_ENV, SNYK_NPM_HTTPS_PROXY_ENV,
       SNYK_NPM_HTTP_PROXY_ENV, SNYK_NPM_PROXY_ENV, SNYK_NPM_ALL_PROXY >>

\* cliv1.CLIV1Version() and the trimmed content of cliv2.version
v1Version == "1.1100.0"
v2Version == "2.0.0"

\* GetFullVersion changed: the two parts are swapped
GetFullVersionSwapped == v1Version \o "." \o v2Version

\* CLI.GetFullVersion
GetFullVersion == v2Version \o "." \o v1Version

\* CLI.GetIntegrationName
GetIntegrationName == SNYK_INTEGRATION_NAME

---------------------------------------------------------------------------
(* Input domains                                                           *)

\* a variable of the parent that the dispatcher does not know
OTHER_ENV == "PATH"

\* every key an environment of the model can hold, in the order ToSlice emits them
KeyOrder ==
    << OTHER_ENV, SNYK_INTEGRATION_NAME_ENV, SNYK_INTEGRATION_VERSION_ENV >> \o blackList

EnvKeys == { KeyOrder[i] : i \in 1..Len(KeyOrder) }

\* values the parent process gives its variables
ParentValues == { "parent-a", "parent-b" }

\* proxy ports and certificate paths the caller passes to Execute
ProxyPorts == { 8080, 3128 }
CertPaths == { "/tmp/snyk-ca.pem" }

SeqsUpTo(S, n) == UNION { [1..k -> S] : k \in 0..n }

\* parent environments of the PrepareV1EnvironmentVariables specification
EnvInputs == SeqsUpTo(EnvKeys \X ParentValues, MaxEnvLen)

---------------------------------------------------------------------------
(* utils: key/value maps and slices                                        *)

Range(s) == { s[i] : i \in 1..Len(s) }

\* utils.Contains
Contains(list, element) == \E i \in 1..Len(list) : list[i] = element

\* utils.ToKeyValueMap: the last entry of a key wins
ToKeyValueMap(input) ==
    [ k \in { input[i][1] : i \in 1..Len(input) } |->
        LET last == CHOOSE i \in 1..Len(input) :
                        /\ input[i][1] = k
                        /\ \A j \in (i+1)..Len(input) : input[j][1] # k
        IN  input[last][2] ]

\* utils.Remove: the map without the key
Remove(m, key) == [ k \in (DOMAIN m) \ {key} |-> m[k] ]

\* m[key] = value on a Go map
MapSet(m, key, value) ==
    [ k \in (DOMAIN m) \cup {key} |-> IF k = key THEN value ELSE m[k] ]

RECURSIVE ToSliceFrom(_, _)
ToSliceFrom(m, i) ==
    IF i > Len(KeyOrder) THEN << >>
    ELSE (IF KeyOrder[i] \in DOMAIN m THEN << <<KeyOrder[i], m[KeyOrder[i]]>> >> ELSE << >>)
         \o ToSliceFrom(m, i + 1)

\* utils.ToSlice: one "K=V" entry per key of the map, in a fixed order
ToSlice(m) == ToSliceFrom(m, 1)

RECURSIVE RemoveAll(_, _, _)
\* the loop over blackList (for _, key := range blackList)
RemoveAll(m, keys, i) ==
    IF i > Len(keys) THEN m ELSE RemoveAll(Remove(m, keys[i]), keys, i + 1)

---------------------------------------------------------------------------
(* PrepareV1EnvironmentVariables                                           *)

\* IntegrationStep changed: both identifiers are set as soon as one of them is missing
IntegrationStepEither(inputAsMap, integrationName, integrationVersion) ==
    IF \/ SNYK_INTEGRATION_NAME_ENV \notin DOMAIN inputAsMap
       \/ SNYK_INTEGRATION_VERSION_ENV \notin DOMAIN inputAsMap
    THEN [ map |-> MapSet(MapSet(inputAsMap, SNYK_INTEGRATION_NAME_ENV, integrationName),
                          SNYK_INTEGRATION_VERSION_ENV, integrationVersion),
           warn |-> FALSE ]
    ELSE [ map |-> inputAsMap, warn |-> FALSE ]

\* the integration-identifier step: the map after it and whether err is an EnvironmentWarning
IntegrationStep(inputAsMap, integrationName, integrationVersion) ==
    LET integrationNameExists == SNYK_INTEGRATION_NAME_ENV \in DOMAIN inputAsMap
        integrationVersionExists == SNYK_INTEGRATION_VERSION_ENV \in DOMAIN inputAsMap
    IN  IF ~integrationNameExists /\ ~integrationVersionExists
        THEN [ map |-> MapSet(MapSet(inputAsMap, SNYK_INTEGRATION_NAME_ENV, integrationName),
                              SNYK_INTEGRATION_VERSION_ENV, integrationVersion),
               warn |-> FALSE ]
        ELSE IF ~(integrationNameExists /\ integrationVersionExists)
        THEN [ map |-> inputAsMap, warn |-> TRUE ]
        ELSE [ map |-> inputAsMap, warn |-> FALSE ]

\* the guard of the blacklist block: if err == nil
AppliesBlackList(warn) == ~warn

\* FillExpected changed: NO_PROXY is filled as well
FillExpectedNoProxy(m, proxyAddress, caCertificateLocation) ==
    MapSet(MapSet(MapSet(MapSet(RemoveAll(m, blackList, 1),
                                SNYK_HTTPS_PROXY_ENV, proxyAddress),
                         SNYK_HTTP_PROXY_ENV, proxyAddress),
                  SNYK_CA_CERTIFICATE_LOCATION_ENV, caCertificateLocation),
           SNYK_HTTP_NO_PROXY_ENV, "127.0.0.1")

\* the blacklist block: remove the blacklisted keys, then fill the expected values
FillExpected(m, proxyAddress, caCertificateLocation) ==
    MapSet(MapSet(MapSet(RemoveAll(m, blackList, 1),
                         SNYK_HTTPS_PROXY_ENV, proxyAddress),
                  SNYK_HTTP_PROXY_ENV, proxyAddress),
           SNYK_CA_CERTIFICATE_LOCATION_ENV, caCertificateLocation)

\* (result, err) of PrepareV1EnvironmentVariables; warn: err is an EnvironmentWarning
PrepareV1EnvironmentVariables(input, integrationName, integrationVersion, proxyAddress, caCertificateLocation) ==
    LET step == IntegrationStep(ToKeyValueMap(input), integrationName, integrationVersion)
    IN  IF AppliesBlackList(step.warn)
        THEN [ result |-> ToSlice(FillExpected(step.map, proxyAddress, caCertificateLocation)),
               warn |-> step.warn ]
        ELSE [ result |-> input, warn |-> step.warn ]

\* fmt.Sprintf("http://127.0.0.1:%d", proxyPort)
ProxyAddress(proxyPort) == "http://127.0.0.1:" \o ToString(proxyPort)

---------------------------------------------------------------------------
(* Reading an environment list                                             *)

\* number of entries of the list with this key
Count(env, key) == Cardinality({ i \in 1..Len(env) : env[i][1] = key })

HasKey(env, key) == Count(env, key) > 0

\* the value a process started with this list sees for the key: os/exec uses the
\* last entry of a duplicated key
Lookup(env, key) == ToKeyValueMap(env)[key]

---------------------------------------------------------------------------
(* Initial values                                                          *)

NoCall == [ port |-> 0, cert |-> "", args |-> << >> ]

NoPrepared ==
    [ called |-> FALSE, input |-> << >>, name |-> "", version |-> "",
      proxy |-> "", cert |-> "", result |-> << >>, warn |-> FALSE ]


NoError == [ kind |-> "nil", code |-> 0 ]

NoOutcome == [ kind |-> "none", code |-> 0 ]

\* status: "none", "missing" (os.Stat failed), "notStarted" (the start failed),
\* "started", "exited", "signaled"; verified: the value of `verified` at the launch
\* input: the ExtensionInput handed to an extension
NoInput ==
    [ metadata |-> "", matchedCommandPath |-> << >>, args |-> << >>, debug |-> FALSE,
      proxyPort |-> 0 ]

\* cmd.Stdin: mode "none" (no Cmd), "inherit" (the parent's os.Stdin) or "buffer"
\* (a bytes.Buffer whose content is data)
NoStdin == [ mode |-> "none", data |-> "" ]

NoChild ==
    [ status |-> "none", kind |-> "", bin |-> "", args |-> << >>, env |-> << >>,
      verified |-> FALSE, err |-> NoError, outcome |-> NoOutcome, input |-> NoInput,
      stdin |-> NoStdin ]

\* paths: the paths the Execute call entered, in order; findErr: ArgParserRootCmd.Find
\* returned an error; spawned: the children the call started
NoRoute == [ paths |-> << >>, findErr |-> FALSE, spawned |-> 0 ]

\* CLI.debugMode
debugMode == FALSE

NoCtor ==
    [ done |-> FALSE, built |-> FALSE, validBefore |-> FALSE, extractions |-> 0,
      fileBefore |-> "", fileAfter |-> "", mismatchAfter |-> FALSE ]

FileStates == { "missing", "good", "bad" }

\* the extensions registered at process start: Metadata.Command.Name and BinPath
Registered ==
    << [ name |-> "foo", bin |-> "/ext/foo-first" ],
       [ name |-> "foo", bin |-> "/ext/foo-second" ] >>

ExtensionLists == { << >>, Registered }

ArgTokens == { "--version", "-v", "version", "--json-file-output", "foo", "bar" }

ArgLists == SeqsUpTo(ArgTokens, MaxArgs)

\* what the parent of the dispatch specification can hold: one unknown variable,
\* one integration identifier, one force-set key and one key that is only removed
DispatchEntries ==
    { <<OTHER_ENV, "parent-a">>, <<SNYK_INTEGRATION_NAME_ENV, "parent-a">>,
      <<SNYK_HTTP_PROXY_ENV, "parent-a">>, <<SNYK_HTTP_NO_PROXY_ENV, "parent-a">> }

ParentEnvs == SeqsUpTo(DispatchEntries, MaxParentEnv)

---------------------------------------------------------------------------
(* NewCLIv2 and ExtractV1Binary                                            *)

\* embedded.ValidateFile: (isValid, err); the file cannot be opened or read: err
ValidateFile(f, readErr) ==
    [ isValid |-> f = "good" /\ ~readErr, err |-> f = "missing" \/ readErr ]

ExtractOutcomes == { "failed", "partial", "good", "bad" }

\* cliv1.ExtractTo: err and the content of the file afterwards
ExtractTo(f, ex) ==
    [ err |-> ex \in { "failed", "partial" },
      file |-> CASE ex = "failed" -> f
                 [] ex = "partial" -> "bad"
                 [] ex = "good" -> "good"
                 [] ex = "bad" -> "bad" ]

\* NeedsExtract changed: the file is extracted on every construction
NeedsExtractAlways(isValid, err) == TRUE

\* if err != nil || !isValid
NeedsExtract(isValid, err) == err \/ ~isValid

\* the value of `return err` in the branch "cliv1 is not valid after sha256 check":
\* err is the variable declared by the second ValidateFile, nil at that point
NotValidAfterExtract(innerErr) == innerErr

\* ExtractV1Binary: err (non-nil), the file afterwards, and what was done
ExtractV1Binary(f, rd1, ex, rd2) ==
    LET v1 == ValidateFile(f, rd1)
    IN  IF NeedsExtract(v1.isValid, v1.err)
        THEN LET e == ExtractTo(f, ex)
                 v2 == ValidateFile(e.file, rd2)
             IN  IF e.err
                 THEN [ err |-> TRUE, file |-> e.file, validBefore |-> v1.isValid /\ ~v1.err,
                        extractions |-> 1, verified |-> FALSE, mismatchAfter |-> FALSE ]
                 ELSE IF v2.err
                 THEN [ err |-> TRUE, file |-> e.file, validBefore |-> v1.isValid /\ ~v1.err,
                        extractions |-> 1, verified |-> FALSE, mismatchAfter |-> FALSE ]
                 ELSE IF v2.isValid
                 THEN [ err |-> FALSE, file |-> e.file, validBefore |-> v1.isValid /\ ~v1.err,
                        extractions |-> 1, verified |-> TRUE, mismatchAfter |-> FALSE ]
                 ELSE [ err |-> NotValidAfterExtract(v2.err), file |-> e.file,
                        validBefore |-> v1.isValid /\ ~v1.err, extractions |-> 1, verified |-> FALSE,
                        mismatchAfter |-> TRUE ]
        ELSE [ err |-> FALSE, file |-> f, validBefore |-> v1.isValid /\ ~v1.err,
               extractions |-> 0, verified |-> TRUE, mismatchAfter |-> FALSE ]

\* NewCLIv2: returns nil (pc = "noCLI") or the CLI (pc = "ready")
NewCLIv2 ==
    /\ pc = "start"
    /\ \E pathErr \in BOOLEAN, rd1 \in BOOLEAN, ex \in ExtractOutcomes, rd2 \in BOOLEAN :
         IF pathErr
         THEN /\ pc' = "noCLI"
              /\ ctor' = [ NoCtor EXCEPT !.done = TRUE, !.fileBefore = file,
                                         !.fileAfter = file ]
              /\ UNCHANGED <<file, verified, racers>>
         ELSE LET r == ExtractV1Binary(file, rd1, ex, rd2)
              IN  /\ pc' = IF r.err THEN "noCLI" ELSE "ready"
                  /\ file' = r.file
                  /\ verified' = r.verified
                  /\ ctor' = [ done |-> TRUE, built |-> ~r.err,
                               validBefore |-> r.validBefore,
                               extractions |-> r.extractions,
                               fileBefore |-> file, fileAfter |-> r.file,
                               mismatchAfter |-> r.mismatchAfter ]
    /\ UNCHANGED <<parentEnv, extensions, call, prepared, child, out, result, route, racers>>

\* the caller of NewCLIv2 got nil: it ends the process with the generic error code
MainExitsOnNil ==
    /\ pc = "noCLI"
    /\ pc' = "failed"
    /\ result' = << SNYK_EXIT_CODE_ERROR >>
    /\ UNCHANGED <<file, verified, ctor, parentEnv, extensions, call, prepared, child, out, route, racers>>

\* another process writes or removes the file at v1BinaryLocation
Tamper ==
    /\ pc = "ready"
    /\ \E f \in FileStates \ {file} : file' = f
    /\ verified' = FALSE
    /\ UNCHANGED <<pc, ctor, parentEnv, extensions, call, prepared, child, out, result, route, racers>>

---------------------------------------------------------------------------
(* Routing                                                                 *)

\* matchBuiltInHandler changed: only the first argument is looked at
matchBuiltInHandlerFirstOnly(args) ==
    Len(args) > 0 /\ args[1] \in { "--version", "-v", "version" }

\* CLI.matchBuiltInHandler: TRUE when the VersionHandler is returned
matchBuiltInHandler(args) ==
    \/ Contains(args, "--version")
    \/ Contains(args, "-v")
    \/ Contains(args, "version")

\* matchExtension changed: a later extension of the same name replaces an earlier one
matchExtensionLast(args, exts) ==
    IF Len(args) > 0 /\ \E i \in 1..Len(exts) : exts[i].name = args[1]
    THEN CHOOSE i \in 1..Len(exts) :
            /\ exts[i].name = args[1]
            /\ \A j \in (i+1)..Len(exts) : exts[j].name # args[1]
    ELSE 0

\* matchExtension changed: every argument is compared with the command names
matchExtensionAnyPosition(args, exts) ==
    IF \E a \in 1..Len(args), i \in 1..Len(exts) : exts[i].name = args[a]
    THEN CHOOSE i \in 1..Len(exts) :
            /\ \E a \in 1..Len(args) : exts[i].name = args[a]
            /\ \A j \in 1..(i-1) : \A a \in 1..Len(args) : exts[j].name # args[a]
    ELSE 0

\* matchExtension: the index of the first extension named args[0], 0 for nil
matchExtension(args, exts) ==
    IF Len(args) > 0 /\ \E i \in 1..Len(exts) : exts[i].name = args[1]
    THEN CHOOSE i \in 1..Len(exts) :
            /\ exts[i].name = args[1]
            /\ \A j \in 1..(i-1) : exts[j].name # args[1]
    ELSE 0

\* VersionHandlerExecute changed: --json-file-output is not looked at
VersionHandlerExecuteNoCheck(args) ==
    [ code |-> EXIT_CODES_OK, out |-> << GetFullVersion >> ]

\* VersionHandler.Execute: the exit code and the line printed
VersionHandlerExecute(args) ==
    IF Contains(args, "--json-file-output")
    THEN [ code |-> EXIT_CODES_ERROR,
           out |-> << "The following option combination is not currently supported: version + json-file-output" >> ]
    ELSE [ code |-> EXIT_CODES_OK, out |-> << GetFullVersion >> ]

---------------------------------------------------------------------------
(* Launching a child and mapping its outcome                               *)

\* how a started child ends: exit status n, or killed by a signal
Outcomes ==
    { [ kind |-> "exit", code |-> n ] : n \in 0..MaxExitStatus }
        \cup { [ kind |-> "signal", code |-> 0 ] }

\* the error of Cmd.Wait (and of Cmd.Run) for a started child: nil after exit
\* status 0, otherwise an *exec.ExitError whose ExitCode() is the status, or -1
\* when the process was terminated by a signal
WaitError(outcome) ==
    IF outcome.kind = "exit"
    THEN IF outcome.code = 0 THEN NoError
         ELSE [ kind |-> "exit", code |-> outcome.code ]
    ELSE [ kind |-> "exit", code |-> EXIT_CODE_SIGNALED ]

\* the error of Cmd.Run when the process cannot be started, and of Cmd.Wait on a
\* Cmd whose Start failed ("exec: not started"): an error that is no ExitError
NotStartedError == [ kind |-> "other", code |-> 0 ]

\* V1ExitCode changed: an error that is no ExitError is dropped
V1ExitCodeSwallow(err) ==
    IF err.kind = "exit"
    THEN [ code |-> err.code, out |-> << >> ]
    ELSE [ code |-> SNYK_EXIT_CODE_OK, out |-> << >> ]

\* executeV1Default after snykCmd.Run(): the exit code returned and the line printed
V1ExitCode(err) ==
    IF err.kind # "nil"
    THEN IF err.kind = "exit"
         THEN [ code |-> err.code, out |-> << >> ]
         ELSE [ code |-> SNYK_EXIT_CODE_ERROR, out |-> << "run error" >> ]
    ELSE [ code |-> SNYK_EXIT_CODE_OK, out |-> << >> ]

\* ExtensionExitCode changed: every failure of the child becomes the generic error code
ExtensionExitCodeGeneric(err) ==
    IF err.kind # "nil"
    THEN [ code |-> EXIT_CODES_ERROR, out |-> << "error launching extension:" >> ]
    ELSE [ code |-> EXIT_CODES_OK, out |-> << >> ]

\* LaunchExtension after cmd.Wait(): the exit code returned and the line printed
ExtensionExitCode(err) ==
    IF err.kind # "nil"
    THEN IF err.kind = "exit"
         THEN [ code |-> err.code, out |-> << >> ]
         ELSE [ code |-> EXIT_CODES_ERROR, out |-> << "error launching extension:" >> ]
    ELSE [ code |-> EXIT_CODES_OK, out |-> << >> ]

\* cmd.Env of LaunchExtension: append(os.Environ(), HTTPS_PROXY=..., NODE_EXTRA_CA_CERTS=...)
ExtensionEnv(environ, proxyPort, caCertLocation) ==
    environ \o << << "HTTPS_PROXY", ProxyAddress(proxyPort) >>,
                  << "NODE_EXTRA_CA_CERTS", caCertLocation >> >>

\* PrepareV1Command: snykCmd.Env and err of the command built for the CLIv1 binary
PrepareV1Command(environ, proxyPort, caCertLocation, integrationName, integrationVersion) ==
    PrepareV1EnvironmentVariables(environ, integrationName, integrationVersion,
                                  ProxyAddress(proxyPort), caCertLocation)

\* a JSON string
JsonString(str) == "\"" \o str \o "\""

RECURSIVE JsonItems(_)
JsonItems(list) ==
    IF Len(list) = 0 THEN ""
    ELSE IF Len(list) = 1 THEN JsonString(list[1])
    ELSE JsonString(list[1]) \o "," \o JsonItems(Tail(list))

\* a JSON array of strings
JsonArray(list) == "[" \o JsonItems(list) \o "]"

\* json.Marshal(extensionInput): the encoded document
Marshal(input) ==
    "{" \o JsonString("metadata") \o ":" \o JsonString(input.metadata)
        \o "," \o JsonString("matchedCommandPath") \o ":" \o JsonArray(input.matchedCommandPath)
        \o "," \o JsonString("args") \o ":" \o JsonArray(input.args)
        \o "," \o JsonString("debug") \o ":" \o (IF input.debug THEN "true" ELSE "false")
        \o "," \o JsonString("proxyPort") \o ":" \o ToString(input.proxyPort)
        \o "}"

\* ExtensionStdin changed: the terminator is a single line end
ExtensionStdinOneLineEnd(extensionInputJsonBytes) ==
    [ mode |-> "buffer", data |-> extensionInputJsonBytes \o "\n" ]

\* cmd.Stdin of LaunchExtension: buffer.Write(extensionInputJsonBytes);
\* buffer.WriteString("\n\n"); cmd.Stdin = &buffer
ExtensionStdin(extensionInputJsonBytes) ==
    [ mode |-> "buffer", data |-> extensionInputJsonBytes \o "\n\n" ]

\* snykCmd.Stdin = os.Stdin
V1Stdin == [ mode |-> "inherit", data |-> "" ]

\* WarningLines changed: the EnvironmentWarning is not printed
WarningLinesSilent(warn) == << >>

\* executeV1Default: an EnvironmentWarning of PrepareV1Command is printed, nothing else
WarningLines(warn) == IF warn THEN << "WARNING! " >> ELSE << >>

\* Returns changed: the exit code is set but Execute goes on routing instead of returning
ReturnsAndGoesOn(code, printed) ==
    /\ pc' = "ready"
    /\ result' = << code >>
    /\ out' = printed

\* return code, after the lines printed
Returns(code, printed) ==
    /\ pc' = "returned"
    /\ result' = << code >>
    /\ out' = printed

\* the path entered is added to the history of the call, with the children it started
Enters(path, findErr, started) ==
    route' = [ paths |-> Append(route.paths, path),
               findErr |-> findErr,
               spawned |-> route.spawned + (IF started THEN 1 ELSE 0) ]

\* FindFails changed: the error of ArgParserRootCmd.Find is not looked at
FindFailsIgnored(findErr) == FALSE

\* matchedCommand, _, err := c.ArgParserRootCmd.Find(passthroughArgs); if err != nil
FindFails(findErr) == findErr

\* the command ArgParserRootCmd.Find resolves the arguments to: the path of the matched command
Find(args) == << args[1] >>

\* MakeExtensionInput
MakeExtensionInput(metadata, matchedCommand, args, debug, proxyPort) ==
    [ metadata |-> metadata, matchedCommandPath |-> matchedCommand, args |-> args,
      debug |-> debug, proxyPort |-> proxyPort ]

\* V1CommandArgs changed: the first argument is taken for the command name and dropped
V1CommandArgsTail(args) == IF Len(args) > 0 THEN Tail(args) ELSE args

\* exec.Command(cmd, args...): the argument list of the CLIv1 child
V1CommandArgs(args) == args

\* Execute, a built-in handler matches
ExecuteBuiltIn ==
    /\ pc = "ready"
    /\ \E port \in ProxyPorts, cert \in CertPaths, args \in ArgLists :
         /\ matchBuiltInHandler(args)
         /\ call' = [ port |-> port, cert |-> cert, args |-> args ]
         /\ Returns(VersionHandlerExecute(args).code, VersionHandlerExecute(args).out)
         /\ Enters("builtin", FALSE, FALSE)
         /\ child' = NoChild
    /\ UNCHANGED <<file, verified, ctor, parentEnv, extensions, prepared, racers>>

\* Execute, an extension matches: ArgParserRootCmd.Find, then LaunchExtension up
\* to cmd.Start() and, when the child was not started, cmd.Wait()
ExecuteExtension ==
    /\ pc = "ready"
    /\ \E port \in ProxyPorts, cert \in CertPaths, args \in ArgLists, findErr \in BOOLEAN,
          step \in { "marshalErr", "statErr", "startErr", "started" } :
         LET x == matchExtension(args, extensions)
             extensionInput == MakeExtensionInput(extensions[x].name, Find(args), args,
                                                  debugMode, port)
             cmd == [ NoChild EXCEPT !.kind = "extension",
                                     !.bin = extensions[x].bin,
                                     !.env = ExtensionEnv(parentEnv, port, cert),
                                     !.input = extensionInput,
                                     !.stdin = ExtensionStdin(Marshal(extensionInput)) ]
         IN  /\ ~matchBuiltInHandler(args)
             /\ x # 0
             /\ call' = [ port |-> port, cert |-> cert, args |-> args ]
             /\ Enters("extension", findErr, ~FindFails(findErr) /\ step = "started")
             /\ IF FindFails(findErr)
                THEN /\ Returns(EXIT_CODES_ERROR,
                                << "There was an error with c.ArgParserRootCmd.Find()" >>)
                     /\ child' = NoChild
                ELSE CASE step = "marshalErr" ->
                            /\ Returns(EXIT_CODES_ERROR,
                                       << "Error deserializing ExtensionInput" >>)
                            /\ child' = NoChild
                       [] step = "statErr" ->
                            /\ Returns(EXIT_CODES_ERROR,
                                       << "error: extension binary does not exist:" >>)
                            /\ child' = [ NoChild EXCEPT !.kind = "extension",
                                                         !.bin = extensions[x].bin,
                                                         !.status = "missing" ]
                       [] step = "startErr" ->
                            /\ Returns(ExtensionExitCode(NotStartedError).code,
                                       ExtensionExitCode(NotStartedError).out)
                            /\ child' = [ cmd EXCEPT !.status = "notStarted",
                                                     !.err = NotStartedError ]
                       [] step = "started" ->
                            /\ pc' = "running"
                            /\ result' = << >>
                            /\ out' = << >>
                            /\ child' = [ cmd EXCEPT !.status = "started" ]
    /\ UNCHANGED <<file, verified, ctor, parentEnv, extensions, prepared, racers>>

\* Execute, nothing matches: executeV1Default up to the start of the child in
\* snykCmd.Run(); a missing file cannot be started
ExecuteV1Default ==
    /\ pc = "ready"
    /\ \E port \in ProxyPorts, cert \in CertPaths, args \in ArgLists, startErr \in BOOLEAN :
         LET p == PrepareV1Command(parentEnv, port, cert, GetIntegrationName, GetFullVersion)
             warning == WarningLines(p.warn)
             cmd == [ NoChild EXCEPT !.kind = "legacy", !.bin = "v1BinaryLocation",
                                     !.args = V1CommandArgs(args), !.env = p.result,
                                     !.verified = verified, !.stdin = V1Stdin ]
         IN  /\ ~matchBuiltInHandler(args)
             /\ matchExtension(args, extensions) = 0
             /\ file = "missing" => startErr
             /\ call' = [ port |-> port, cert |-> cert, args |-> args ]
             /\ Enters("legacy", FALSE, ~startErr)
             /\ prepared' = [ called |-> TRUE, input |-> parentEnv,
                              name |-> GetIntegrationName, version |-> GetFullVersion,
                              proxy |-> ProxyAddress(port), cert |-> cert,
                              result |-> p.result, warn |-> p.warn ]
             /\ IF startErr
                THEN /\ Returns(V1ExitCode(NotStartedError).code,
                                warning \o V1ExitCode(NotStartedError).out)
                     /\ child' = [ cmd EXCEPT !.status = "notStarted",
                                              !.err = NotStartedError ]
                ELSE /\ pc' = "running"
                     /\ result' = << >>
                     /\ out' = warning
                     /\ child' = [ cmd EXCEPT !.status = "started" ]
    /\ UNCHANGED <<file, verified, ctor, parentEnv, extensions, racers>>

\* the started child ends; snykCmd.Run() / cmd.Wait() returns and the exit code is mapped
ChildTerminates ==
    /\ pc = "running"
    /\ \E outcome \in Outcomes :
         LET err == WaitError(outcome)
             r == IF child.kind = "legacy" THEN V1ExitCode(err) ELSE ExtensionExitCode(err)
         IN  /\ child' = [ child EXCEPT !.status = IF outcome.kind = "exit" THEN "exited"
                                                   ELSE "signaled",
                                        !.err = err, !.outcome = outcome ]
             /\ Returns(r.code, out \o r.out)
    /\ UNCHANGED <<file, verified, ctor, parentEnv, extensions, call, prepared, route, racers>>

\* the caller is done with the exit code; Execute can be called again on the same CLI
CallAgain ==
    /\ pc = "returned"
    /\ pc' = "ready"
    /\ call' = NoCall
    /\ prepared' = NoPrepared
    /\ child' = NoChild
    /\ out' = << >>
    /\ result' = << >>
    /\ route' = NoRoute
    /\ UNCHANGED <<file, verified, ctor, parentEnv, extensions, racers>>

---------------------------------------------------------------------------
(* The dispatch specification: one process constructs the CLI and calls Execute *)

Init ==
    /\ pc = "start"
    /\ file \in FileStates
    /\ verified = FALSE
    /\ ctor = NoCtor
    /\ parentEnv \in ParentEnvs
    /\ extensions \in ExtensionLists
    /\ call = NoCall
    /\ prepared = NoPrepared
    /\ child = NoChild
    /\ out = << >>
    /\ result = << >>
    /\ route = NoRoute
    /\ racers = << >>

Next ==
    \/ NewCLIv2
    \/ MainExitsOnNil
    \/ Tamper
    \/ ExecuteBuiltIn
    \/ ExecuteExtension
    \/ ExecuteV1Default
    \/ ChildTerminates
    \/ CallAgain

Spec == Init /\ [][Next]_vars

---------------------------------------------------------------------------
(* The specification of PrepareV1EnvironmentVariables on its own           *)

IntegrationNames == { SNYK_INTEGRATION_NAME }
IntegrationVersions == { GetFullVersion }

InitEnv ==
    /\ pc = "env"
    /\ file = "good"
    /\ verified = FALSE
    /\ ctor = NoCtor
    /\ parentEnv \in EnvInputs
    /\ extensions = << >>
    /\ call = NoCall
    /\ prepared = NoPrepared
    /\ child = NoChild
    /\ out = << >>
    /\ result = << >>
    /\ route = NoRoute
    /\ racers = << >>

\* one call of PrepareV1EnvironmentVariables on the parent environment
PrepareCall ==
    /\ pc = "env"
    /\ \E name \in IntegrationNames, version \in IntegrationVersions,
          port \in ProxyPorts, cert \in CertPaths :
         LET p == PrepareV1EnvironmentVariables(parentEnv, name, version,
                                                ProxyAddress(port), cert)
         IN  prepared' = [ called |-> TRUE, input |-> parentEnv, name |-> name,
                           version |-> version, proxy |-> ProxyAddress(port),
                           cert |-> cert, result |-> p.result, warn |-> p.warn ]
    /\ pc' = "envDone"
    /\ UNCHANGED <<file, verified, ctor, parentEnv, extensions, call, child, out, result, route, racers>>

NextEnv == PrepareCall

SpecEnv == InitEnv /\ [][NextEnv]_vars

---------------------------------------------------------------------------
(* Properties                                                              *)

\* a child process was started by the Execute call
Launched == child.status \in { "started", "exited", "signaled" }

\* the child could not be started at all
StartFailed == child.status \in { "missing", "notStarted" }

\* the value the dispatcher itself gives a force-set key on this call
OwnValue(key) ==
    IF key = SNYK_CA_CERTIFICATE_LOCATION_ENV THEN call.cert ELSE ProxyAddress(call.port)

ForcedKeys == { SNYK_HTTPS_PROXY_ENV, SNYK_HTTP_PROXY_ENV, SNYK_CA_CERTIFICATE_LOCATION_ENV }

RemovedOnlyKeys == Range(blackList) \ ForcedKeys

\* C1: on both launch paths, every blacklisted key is either absent from the
\* environment handed to the child or carries the dispatcher's own value; none is
\* forwarded from the parent.
C1_NoBlacklistedKeyForwarded ==
    Launched =>
        \A k \in Range(blackList) :
            \/ ~HasKey(child.env, k)
            \/ k \in ForcedKeys /\ Lookup(child.env, k) = OwnValue(k)

\* C2: the result of PrepareV1EnvironmentVariables holds none of the six keys that
\* are only removed, and holds a force-set key only with the value given by the
\* caller, whatever the integration identifiers of the parent are.
C2_BlacklistRemovedUnconditionally ==
    prepared.called =>
        /\ \A k \in RemovedOnlyKeys : ~HasKey(prepared.result, k)
        /\ \A i \in 1..Len(prepared.result) :
              /\ prepared.result[i][1] \in { SNYK_HTTPS_PROXY_ENV, SNYK_HTTP_PROXY_ENV }
                    => prepared.result[i][2] = prepared.proxy
              /\ prepared.result[i][1] = SNYK_CA_CERTIFICATE_LOCATION_ENV
                    => prepared.result[i][2] = prepared.cert

\* C3: the result of PrepareV1EnvironmentVariables holds HTTPS_PROXY and HTTP_PROXY
\* with proxyAddress and NODE_EXTRA_CA_CERTS with caCertificateLocation, each exactly
\* once, also when a warning is returned.
C3_ForcedKeysAlwaysSet ==
    prepared.called =>
        /\ \A k \in ForcedKeys : Count(prepared.result, k) = 1
        /\ Lookup(prepared.result, SNYK_HTTPS_PROXY_ENV) = prepared.proxy
        /\ Lookup(prepared.result, SNYK_HTTP_PROXY_ENV) = prepared.proxy
        /\ Lookup(prepared.result, SNYK_CA_CERTIFICATE_LOCATION_ENV) = prepared.cert

\* C4: every launched child, extension or CLIv1, sees HTTPS_PROXY and HTTP_PROXY
\* equal to "http://127.0.0.1:<port>" and NODE_EXTRA_CA_CERTS equal to the
\* certificate path of the call.
C4_ProxyAndCertInChildEnv ==
    Launched =>
        \A k \in ForcedKeys : HasKey(child.env, k) /\ Lookup(child.env, k) = OwnValue(k)

\* C5: the CLIv1 binary is launched only when the content the file has at the
\* launch passed ValidateFile beforehand in this process.
C5_VerifiedBeforeEveryLaunch ==
    (child.kind = "legacy" /\ Launched) => child.verified

\* C6: when the validation after the extraction reports a mismatch, exactly one
\* extraction was attempted, NewCLIv2 returns nil and the CLIv1 binary is never
\* launched.
C6_MismatchAfterExtractFails ==
    ctor.mismatchAfter =>
        /\ ctor.extractions = 1
        /\ ~ctor.built
        /\ pc = "noCLI"
        /\ child.kind # "legacy"

\* C7: when the first ValidateFile finds the cached file valid, ExtractV1Binary
\* succeeds without any extraction and leaves the file as it was.
C7_ValidFileNotExtracted ==
    (ctor.done /\ ctor.validBefore) =>
        /\ ctor.built
        /\ ctor.extractions = 0
        /\ ctor.fileAfter = ctor.fileBefore

C7_Witness ==
    /\ pc = "ready"
    /\ ctor.validBefore
    /\ ctor.extractions = 0
    /\ ctor.fileAfter = "good"

\* C8: when the started child ends with exit status n, Execute returns n, on the
\* CLIv1 path and on the extension path.
C8_ExitStatusPassedThrough ==
    (pc = "returned" /\ child.outcome.kind = "exit") => result = << child.outcome.code >>

C8_Witness ==
    /\ pc = "returned"
    /\ child.kind = "extension"
    /\ child.outcome = [ kind |-> "exit", code |-> 1 ]
    /\ result = << 1 >>

\* C9: when the child cannot be started, Execute has returned the generic error
\* code and printed a diagnostic, on both paths; the dispatcher waits only for a
\* child that was started.
C9_StartFailureReported ==
    /\ StartFailed =>
          /\ pc = "returned"
          /\ result = << SNYK_EXIT_CODE_ERROR >>
          /\ Len(out) > 0
          /\ out[Len(out)] \in { "run error", "error launching extension:",
                                 "error: extension binary does not exist:" }
    /\ pc = "running" => child.status = "started"

C9_Witness ==
    /\ pc = "returned"
    /\ child.kind = "extension"
    /\ child.status = "notStarted"
    /\ result = << EXIT_CODES_ERROR >>

\* C10: when the started child is killed by a signal, Execute returns the generic
\* error code, on both paths.
C10_SignalGivesGenericError ==
    (pc = "returned" /\ child.status = "signaled") => result = << SNYK_EXIT_CODE_ERROR >>

---------------------------------------------------------------------------
(* Properties of the routing                                               *)

\* an Execute call is in progress or has returned
Called == pc \in { "running", "returned" }

VersionFlags == { "--version", "-v", "version" }

HasVersionFlag(args) == \E i \in 1..Len(args) : args[i] \in VersionFlags

HasJsonFileOutput(args) == \E i \in 1..Len(args) : args[i] = "--json-file-output"

\* the string "<v2Version>.<v1Version>"
VersionString == v2Version \o "." \o v1Version

\* the first argument is the command name of a registered extension
FirstNamesExtension(args) ==
    Len(args) > 0 /\ \E i \in 1..Len(extensions) : extensions[i].name = args[1]

\* the number of registered extensions before the first one with this command name
EarlierExtensions(name) ==
    Cardinality({ i \in 1..Len(extensions) :
                    \A j \in 1..i : extensions[j].name # name })

\* C11: a version flag at any position selects the built-in version handler, also
\* when the first argument names a registered extension, and no child is launched.
C11_VersionFlagWins ==
    (Called /\ HasVersionFlag(call.args)) =>
        /\ pc = "returned"
        /\ route.paths = << "builtin" >>
        /\ route.spawned = 0
        /\ child.status = "none"

C11_Witness ==
    /\ pc = "returned"
    /\ extensions = Registered
    /\ call.args = << "foo", "--version" >>
    /\ route.paths = << "builtin" >>

\* C12: a version flag together with --json-file-output, in any order, returns the
\* generic error code, does not print the version and launches no child.
C12_VersionWithJsonFileOutputFails ==
    (Called /\ HasVersionFlag(call.args) /\ HasJsonFileOutput(call.args)) =>
        /\ result = << SNYK_EXIT_CODE_ERROR >>
        /\ \A i \in 1..Len(out) : out[i] # VersionString
        /\ route.spawned = 0
        /\ ~Launched

C12_Witness ==
    /\ pc = "returned"
    /\ call.args = << "--json-file-output", "-v" >>
    /\ result = << SNYK_EXIT_CODE_ERROR >>

\* C13: a version flag without --json-file-output returns 0 and prints exactly
\* v2Version + "." + v1Version.
C13_VersionPrinted ==
    (Called /\ HasVersionFlag(call.args) /\ ~HasJsonFileOutput(call.args)) =>
        /\ result = << SNYK_EXIT_CODE_OK >>
        /\ out = << VersionString >>

C13_Witness ==
    /\ pc = "returned"
    /\ call.args = << "version" >>
    /\ result = << 0 >>
    /\ out = << "2.0.0.1.1100.0" >>

\* C14: without a version flag, the extension path is entered exactly when the
\* first argument is the command name of a registered extension, and the extension
\* launched is the first one registered under that name.
C14_FirstRegisteredExtensionSelected ==
    (Called /\ ~HasVersionFlag(call.args)) =>
        /\ FirstNamesExtension(call.args) =>
              /\ route.paths = << "extension" >>
              /\ child.kind # "legacy"
              /\ child.kind = "extension" =>
                    child.bin = extensions[EarlierExtensions(call.args[1]) + 1].bin
        /\ ~FirstNamesExtension(call.args) =>
              /\ \A i \in 1..Len(route.paths) : route.paths[i] # "extension"
              /\ child.kind # "extension"

C14_Witness ==
    /\ pc = "running"
    /\ call.args = << "foo", "bar" >>
    /\ Len(extensions) = 2
    /\ child.kind = "extension"
    /\ child.bin = "/ext/foo-first"

\* C15: when an extension matches and ArgParserRootCmd.Find returns an error,
\* Execute has returned the generic error code and launched no child.
C15_FindErrorIsFatal ==
    route.findErr =>
        /\ pc = "returned"
        /\ result = << SNYK_EXIT_CODE_ERROR >>
        /\ route.paths = << "extension" >>
        /\ route.spawned = 0
        /\ child.status = "none"

C15_Witness ==
    /\ route.findErr
    /\ pc = "returned"
    /\ result = << EXIT_CODES_ERROR >>
    /\ child = NoChild

\* C16: arguments that match no built-in handler and no extension, the empty list
\* and an empty extension list included, enter the CLIv1 path; an exit code then
\* comes from the launch of the CLIv1 binary only.
C16_LegacyFallbackIsDefault ==
    (Called /\ ~HasVersionFlag(call.args) /\ ~FirstNamesExtension(call.args)) =>
        /\ route.paths = << "legacy" >>
        /\ child.kind = "legacy"
        /\ prepared.called
        /\ pc = "returned" => child.status \in { "notStarted", "exited", "signaled" }

C16_Witness ==
    /\ pc = "running"
    /\ extensions = << >>
    /\ call.args = << >>
    /\ route.paths = << "legacy" >>
    /\ child.status = "started"

\* C17: the argument list of Execute is the argument list of the CLIv1 child and
\* the args field of the input of the extension child, unchanged.
C17_ArgsForwardedVerbatim ==
    /\ (child.kind = "legacy" /\ child.status # "none") => child.args = call.args
    /\ (child.kind = "extension" /\ child.status # "missing") =>
            child.input.args = call.args

C17_Witness ==
    /\ Launched
    /\ child.kind = "extension"
    /\ call.args = << "foo", "bar" >>
    /\ child.input.args = << "foo", "bar" >>

\* C18: without any integration identifier in the parent both are set from the
\* arguments and there is no warning; with exactly one there is a warning and both
\* are as in the parent; with both, both keep the parent's values and there is no
\* warning.
C18_IntegrationIdentifiers ==
    prepared.called =>
        LET hasName == HasKey(prepared.input, SNYK_INTEGRATION_NAME_ENV)
            hasVersion == HasKey(prepared.input, SNYK_INTEGRATION_VERSION_ENV)
            AsInParent(k) ==
                /\ HasKey(prepared.result, k) <=> HasKey(prepared.input, k)
                /\ HasKey(prepared.input, k) =>
                      /\ Count(prepared.result, k) = Count(prepared.input, k)
                      /\ Lookup(prepared.result, k) = Lookup(prepared.input, k)
        IN  /\ (~hasName /\ ~hasVersion) =>
                  /\ ~prepared.warn
                  /\ Count(prepared.result, SNYK_INTEGRATION_NAME_ENV) = 1
                  /\ Count(prepared.result, SNYK_INTEGRATION_VERSION_ENV) = 1
                  /\ Lookup(prepared.result, SNYK_INTEGRATION_NAME_ENV) = prepared.name
                  /\ Lookup(prepared.result, SNYK_INTEGRATION_VERSION_ENV) = prepared.version
            /\ (hasName # hasVersion) =>
                  /\ prepared.warn
                  /\ AsInParent(SNYK_INTEGRATION_NAME_ENV)
                  /\ AsInParent(SNYK_INTEGRATION_VERSION_ENV)
            /\ (hasName /\ hasVersion) =>
                  /\ ~prepared.warn
                  /\ Lookup(prepared.result, SNYK_INTEGRATION_NAME_ENV)
                        = Lookup(prepared.input, SNYK_INTEGRATION_NAME_ENV)
                  /\ Lookup(prepared.result, SNYK_INTEGRATION_VERSION_ENV)
                        = Lookup(prepared.input, SNYK_INTEGRATION_VERSION_ENV)

C18_Witness ==
    /\ pc = "envDone"
    /\ prepared.warn
    /\ prepared.input = << << "SNYK_INTEGRATION_VERSION", "parent-b" >> >>
    /\ prepared.result = prepared.input

\* C19: an Execute call enters exactly one path and never a second one, starts at
\* most one child, and none on the built-in path; the dispatcher waits only on the
\* extension or the CLIv1 path, for the one child it started.
C19_ExactlyOnePath ==
    /\ pc \in { "start", "ready", "noCLI", "failed" } => route = NoRoute
    /\ Called =>
          /\ Len(route.paths) = 1
          /\ route.paths[1] \in { "builtin", "extension", "legacy" }
          /\ route.spawned = (IF Launched THEN 1 ELSE 0)
          /\ route.paths[1] = "builtin" => (route.spawned = 0 /\ child.status = "none")
          /\ child.status # "none" => child.kind = route.paths[1]
    /\ pc = "running" => (route.spawned = 1 /\ child.status = "started")
    /\ pc = "returned" => Len(result) = 1

C19_Witness ==
    /\ pc = "returned"
    /\ route.paths = << "extension" >>
    /\ child.status = "notStarted"
    /\ route.spawned = 0

---------------------------------------------------------------------------
(* The dispatch flow with its scheduling: the process goes on while it can, *)
(* and a launched child terminates                                          *)

Execute == ExecuteBuiltIn \/ ExecuteExtension \/ ExecuteV1Default

SpecFair ==
    /\ Init
    /\ [][Next]_vars
    /\ WF_vars(NewCLIv2)
    /\ WF_vars(MainExitsOnNil)
    /\ WF_vars(Execute)
    /\ WF_vars(ChildTerminates)

\* the flow has ended with an exit code
Terminated == pc \in { "returned", "failed" } /\ Len(result) = 1

\* the fatal conditions of the flow
IntegrityFailure == ctor.done /\ (ctor.mismatchAfter \/ ~ctor.built)

UnresolvableCommandPath == route.findErr

UnsupportedFlagCombination ==
    Called /\ HasVersionFlag(call.args) /\ HasJsonFileOutput(call.args)

LaunchFailure == child.status \in { "missing", "notStarted" }

\* every flow that has started ends with an exit code, a launched child terminating
C20_ExitCodeEventually == (pc = "start") ~> Terminated

\* C20: a flow that has ended has an exit code, and a flow in which the integrity
\* check of the construction failed, the command path was not resolved, the flags
\* were an unsupported combination or the launch failed ends with the generic
\* error code.
C20_FatalConditionsGiveGenericError ==
    /\ pc \in { "returned", "failed" } => Len(result) = 1
    /\ Terminated =>
          ((\/ IntegrityFailure
            \/ UnresolvableCommandPath
            \/ UnsupportedFlagCombination
            \/ LaunchFailure) => result = << SNYK_EXIT_CODE_ERROR >>)

\* the same without the integrity failure of the construction
C20_OtherFatalConditions ==
    /\ pc \in { "returned", "failed" } => Len(result) = 1
    /\ Terminated =>
          ((\/ ctor.done /\ ~ctor.built
            \/ UnresolvableCommandPath
            \/ UnsupportedFlagCombination
            \/ LaunchFailure) => result = << SNYK_EXIT_CODE_ERROR >>)

---------------------------------------------------------------------------
(* Properties of the launch                                                *)

\* C21: the Cmd of the CLIv1 child has the parent's stdin and no payload; the Cmd
\* of an extension child has a buffer that holds the encoded extension input
\* followed by "\n\n" and nothing else, and never the parent's stdin.
C21_OneStdinMode ==
    /\ (child.kind = "legacy" /\ child.status # "none") =>
            child.stdin = [ mode |-> "inherit", data |-> "" ]
    /\ (child.kind = "extension" /\ child.status \notin { "none", "missing" }) =>
            /\ child.stdin.mode = "buffer"
            /\ child.stdin.data = Marshal(child.input) \o "\n\n"
            /\ child.input.args = call.args
    /\ child.status \in { "none", "missing" } => child.stdin.mode = "none"

C21_Witness ==
    /\ Launched
    /\ child.kind = "extension"
    /\ call.args = << "foo", "bar" >>
    /\ call.port = 8080
    /\ child.stdin.mode = "buffer"
    /\ child.stdin.data =
          "{\"metadata\":\"foo\",\"matchedCommandPath\":[\"foo\"],\"args\":[\"foo\",\"bar\"],\"debug\":false,\"proxyPort\":8080}\n\n"

\* the exit code executeV1Default returns for a child that did not get an
\* EnvironmentWarning: the exit status, -1 after a signal, 2 when it did not start
ExitCodeWithoutWarning ==
    CASE child.status = "exited" -> child.outcome.code
      [] child.status = "signaled" -> EXIT_CODE_SIGNALED
      [] child.status = "notStarted" -> SNYK_EXIT_CODE_ERROR
      [] OTHER -> SNYK_EXIT_CODE_ERROR

\* exactly one of the two integration identifiers is in the list
ExactlyOneIdentifier(env) ==
    HasKey(env, SNYK_INTEGRATION_NAME_ENV) # HasKey(env, SNYK_INTEGRATION_VERSION_ENV)

\* C22: with exactly one integration identifier in the parent, the CLIv1 path
\* prints the warning, still runs the command, and returns the exit code the
\* child's outcome gives without a warning.
C22_WarningIsNotFatal ==
    (Called /\ route.paths = << "legacy" >> /\ ExactlyOneIdentifier(parentEnv)) =>
        /\ prepared.warn
        /\ Len(out) > 0 /\ out[1] = "WARNING! "
        /\ child.kind = "legacy"
        /\ child.status \in { "started", "exited", "signaled", "notStarted" }
        /\ pc = "returned" =>
              /\ child.status # "started"
              /\ result = << ExitCodeWithoutWarning >>

C22_Witness ==
    /\ pc = "returned"
    /\ prepared.warn
    /\ child.kind = "legacy"
    /\ child.status = "exited"
    /\ child.outcome.code = 0
    /\ out = << "WARNING! " >>
    /\ result = << SNYK_EXIT_CODE_OK >>

---------------------------------------------------------------------------
(* The frame of PrepareV1EnvironmentVariables                              *)

BlackListedKeys == { blackList[i] : i \in 1..Len(blackList) }

IntegrationKeys == { SNYK_INTEGRATION_NAME_ENV, SNYK_INTEGRATION_VERSION_ENV }

\* the keys PrepareV1EnvironmentVariables may add to a list that lacks them
AddedKeys ==
    IntegrationKeys \cup
        { SNYK_HTTPS_PROXY_ENV, SNYK_HTTP_PROXY_ENV, SNYK_CA_CERTIFICATE_LOCATION_ENV }

KeysOf(env) == { env[i][1] : i \in 1..Len(env) }

\* C24: a parent variable that is neither blacklisted nor an integration
\* identifier is in the result with the value of its last entry in the parent,
\* and a key of the result that the parent lacks is one of the two integration
\* identifiers, HTTPS_PROXY, HTTP_PROXY or NODE_EXTRA_CA_CERTS.
C24_FramePreserved ==
    prepared.called =>
        /\ \A k \in KeysOf(prepared.input) \ (BlackListedKeys \cup IntegrationKeys) :
              /\ HasKey(prepared.result, k)
              /\ Lookup(prepared.result, k) = Lookup(prepared.input, k)
        /\ KeysOf(prepared.result) \ KeysOf(prepared.input) \subseteq AddedKeys

C24_Witness ==
    /\ pc = "envDone"
    /\ prepared.input = << << "PATH", "parent-a" >>, << "PATH", "parent-b" >> >>
    /\ Lookup(prepared.result, "PATH") = "parent-b"
    /\ KeysOf(prepared.result) =
          { "PATH", "SNYK_INTEGRATION_NAME", "SNYK_INTEGRATION_VERSION",
            "HTTPS_PROXY", "HTTP_PROXY", "NODE_EXTRA_CA_CERTS" }

---------------------------------------------------------------------------
(* The race specification: concurrent invocations (processes), each running *)
(* NewCLIv2 / ExtractV1Binary and then executeV1Default on the same cache   *)
(* path. ExtractV1Binary takes no lock; between two of its calls, and while *)
(* ExtractTo writes, the other invocations take steps.                      *)

Invocations == 1..MaxInvocations

\* pc: "start", "extract" (the first ValidateFile sent it to ExtractTo), "writing"
\* (inside ExtractTo), "extracted", "ready" (the CLI is built), "noCLI", "running"
\* (the CLIv1 child runs the file); history: validBefore, extractions, and whether
\* another invocation was writing when this one began to write (overlapped),
\* validated the file (readWhileWritten) or launched it (ranWhileWritten)
NoRacer ==
    [ pc |-> "start", validBefore |-> FALSE, extractions |-> 0, overlapped |-> FALSE,
      readWhileWritten |-> FALSE, ranWhileWritten |-> FALSE ]

\* the other invocations that are inside ExtractTo
OtherWriters(p) == { q \in Invocations \ {p} : racers[q].pc = "writing" }

\* the first embedded.ValidateFile of ExtractV1Binary and its branch
RaceValidate(p) ==
    /\ racers[p].pc = "start"
    /\ LET v1 == ValidateFile(file, FALSE)
       IN  racers' = [ racers EXCEPT
                ![p].pc = IF NeedsExtract(v1.isValid, v1.err) THEN "extract" ELSE "ready",
                ![p].validBefore = v1.isValid /\ ~v1.err,
                ![p].readWhileWritten = @ \/ OtherWriters(p) # {} ]
    /\ UNCHANGED <<pc, file, verified, ctor, parentEnv, extensions, call, prepared, child, out, result, route>>

\* cliv1.ExtractTo opens the file at v1BinaryLocation for writing: its content is
\* incomplete until the write ends
RaceBeginExtract(p) ==
    /\ racers[p].pc = "extract"
    /\ racers' = [ racers EXCEPT ![p].pc = "writing",
                                 ![p].extractions = @ + 1,
                                 ![p].overlapped = OtherWriters(p) # {} ]
    /\ file' = "bad"
    /\ UNCHANGED <<pc, verified, ctor, parentEnv, extensions, call, prepared, child, out, result, route>>

\* cliv1.ExtractTo returns; with another writer on the same path the content it
\* leaves is any of the outcomes
RaceEndExtract(p) ==
    /\ racers[p].pc = "writing"
    /\ \E ex \in ExtractOutcomes \ { "failed" } :
         LET e == ExtractTo(file, ex)
         IN  /\ file' = e.file
             /\ racers' = [ racers EXCEPT ![p].pc = IF e.err THEN "noCLI" ELSE "extracted" ]
    /\ UNCHANGED <<pc, verified, ctor, parentEnv, extensions, call, prepared, child, out, result, route>>

\* the second embedded.ValidateFile of ExtractV1Binary and the return value
RaceValidateAfter(p) ==
    /\ racers[p].pc = "extracted"
    /\ LET v2 == ValidateFile(file, FALSE)
           err == IF v2.err THEN TRUE
                  ELSE IF v2.isValid THEN FALSE
                  ELSE NotValidAfterExtract(v2.err)
       IN  racers' = [ racers EXCEPT
                ![p].pc = IF err THEN "noCLI" ELSE "ready",
                ![p].readWhileWritten = @ \/ OtherWriters(p) # {} ]
    /\ UNCHANGED <<pc, file, verified, ctor, parentEnv, extensions, call, prepared, child, out, result, route>>

\* executeV1Default: snykCmd.Run() starts the file at v1BinaryLocation
RaceExecute(p) ==
    /\ racers[p].pc = "ready"
    /\ file # "missing"
    /\ racers' = [ racers EXCEPT ![p].pc = "running",
                                 ![p].ranWhileWritten = OtherWriters(p) # {} ]
    /\ UNCHANGED <<pc, file, verified, ctor, parentEnv, extensions, call, prepared, child, out, result, route>>

InitRace ==
    /\ pc = "race"
    /\ file \in FileStates
    /\ verified = FALSE
    /\ ctor = NoCtor
    /\ parentEnv = << >>
    /\ extensions = << >>
    /\ call = NoCall
    /\ prepared = NoPrepared
    /\ child = NoChild
    /\ out = << >>
    /\ result = << >>
    /\ route = NoRoute
    /\ racers = [ p \in Invocations |-> NoRacer ]

NextRace ==
    \E p \in Invocations :
        \/ RaceValidate(p)
        \/ RaceBeginExtract(p)
        \/ RaceEndExtract(p)
        \/ RaceValidateAfter(p)
        \/ RaceExecute(p)

SpecRace == InitRace /\ [][NextRace]_vars

\* the invocations that are inside ExtractTo
Writers == { p \in Invocations : racers[p].pc = "writing" }

\* at most one invocation writes the cache path at a time: this does not hold
WritersExcluded == Cardinality(Writers) <= 1

\* C23: one invocation writes the cache path at most once, and only after its own
\* validation found the file invalid; nothing orders the invocations, so that two
\* are inside ExtractTo at once and one validates and runs the file while another
\* writes it (C23_Witness).
C23_SingleWriterPerInvocation ==
    \A p \in DOMAIN racers :
        /\ racers[p].extractions <= 1
        /\ racers[p].pc = "writing" => racers[p].extractions = 1
        /\ racers[p].extractions = 1 => ~racers[p].validBefore
        /\ racers[p].pc \in { "extract", "writing", "extracted" } => ~racers[p].validBefore
        /\ racers[p].overlapped => racers[p].extractions = 1

C23_Witness ==
    \E p \in DOMAIN racers, q \in DOMAIN racers :
        /\ p # q
        /\ racers[q].pc = "writing"
        /\ racers[q].overlapped
        /\ racers[p].extractions = 1
        /\ racers[p].readWhileWritten
        /\ racers[p].pc = "running"
        /\ racers[p].ranWhileWritten

=============================================================================
